---- MODULE Spec2Model ----
(***************************************************************************)
(* A model of wave_generator.py: the keyboard synthesiser's render         *)
(* pipeline (oscillator, phaser, echo, chorus, int16 quantisation), its     *)
(* sound bank and its pygame event loop.                                    *)
(*                                                                          *)
(* Number representation.  The program computes on floats.  Here a sample   *)
(* amplitude a is the integer a * ONE (fixed point, products truncated      *)
(* toward zero); frequencies, durations, depths, rates and gains are exact  *)
(* rationals <<num, den>>; fractional sample positions are in units of      *)
(* 1/ONE sample.  np.sin is the rational approximation sin_fp.              *)
(***************************************************************************)
EXTENDS Integers, Sequences, FiniteSets, TLC

\* Resolution of the fixed-point amplitudes: 1.0 is ONE.
ONE == 1000

\* ------------------------------------------------------------------------
\* Arithmetic helpers
\* ------------------------------------------------------------------------

\* int(x) / astype(int) of the quotient a / b, b > 0: truncation toward zero.
Trunc(a, b) == IF a >= 0 THEN a \div b ELSE -((-a) \div b)

\* np.clip(x, lo, hi) == minimum(maximum(x, lo), hi)
Clip(x, lo, hi) == LET m == IF x < lo THEN lo ELSE x IN IF m > hi THEN hi ELSE m

\* np.sin(2 * pi * num / den) in fixed point, den > 0.  The half period is
\* cut in 512 steps and the sine on it is Bhaskara's rational approximation
\* 16u(1-u) / (5 - 4u(1-u)), within 0.002 of the sine; its peak is exactly ONE.
sin_fp(num, den) ==
  LET r    == num % den
      neg  == 2 * r >= den
      a    == IF neg THEN 2 * r - den ELSE 2 * r
      u    == (a * 512) \div den
      p    == u * (512 - u)
      s    == (16 * p * ONE) \div (5 * 512 * 512 - 4 * p)
  IN IF neg THEN -s ELSE s

\* scipy.signal.square(2 * pi * num / den): 1 on the first half period, else -1.
square_fp(num, den) == IF 2 * (num % den) < den THEN ONE ELSE -ONE

\* scipy.signal.sawtooth(2 * pi * num / den, 0.5): rises -1 -> 1 on the first
\* half period and falls 1 -> -1 on the second.
sawtooth_fp(num, den) ==
  LET r == num % den
  IN IF 2 * r < den THEN Trunc(4 * r * ONE, den) - ONE
                    ELSE 3 * ONE - Trunc(4 * r * ONE, den)

\* np.interp(x, arange(n), wave) at the position xfp / ONE in [0, n-1]:
\* linear interpolation between the two neighbouring samples (1-based seq).
interp(xfp, wave) ==
  LET fl == xfp \div ONE
      fr == xfp % ONE
  IN IF fr = 0 THEN wave[fl + 1]
     ELSE wave[fl + 1] + Trunc(fr * (wave[fl + 2] - wave[fl + 1]), ONE)

\* np.linspace(0, 1, m)[j] applied as a gain to x, 0 <= j < m.
fade_gain(x, j, m) == IF m = 1 THEN 0 ELSE Trunc(x * j, m - 1)

\* np.linspace(1, 0, m)[j] applied as a gain to x, 0 <= j < m.
fade_gain_down(x, j, m) == IF m = 1 THEN x ELSE Trunc(x * (m - 1 - j), m - 1)

\* ------------------------------------------------------------------------
\* Effects
\* ------------------------------------------------------------------------

\* apply_phaser raises ValueError: np.interp on an empty array, or the
\* fade slices not matching the fade curves (buffer shorter than the fade,
\* or a fade of 0 samples, where output[-0:] is the whole buffer).
phaser_raises(wave, sample_rate) ==
  LET n            == Len(wave)
      fade_samples == sample_rate \div 100
  IN n = 0 \/ n < fade_samples \/ fade_samples = 0

apply_phaser(wave, sample_rate, depth, rate) ==
  LET n            == Len(wave)
      lfo(i)       == (ONE + sin_fp(rate[1] * i, rate[2] * sample_rate)) \div 2
      delay(i)     == (lfo(i) * depth[1] * sample_rate) \div depth[2]
      delayed_x(i) == Clip(i * ONE - delay(i), 0, (n - 1) * ONE)
      mixed(i)     == Trunc(7 * wave[i + 1] + 3 * interp(delayed_x(i), wave), 10)
      fade_samples == sample_rate \div 100
      faded_in(i)  == IF i < fade_samples
                        THEN fade_gain(mixed(i), i, fade_samples)
                        ELSE mixed(i)
      faded_out(i) == IF i >= n - fade_samples
                        THEN fade_gain_down(faded_in(i), i - (n - fade_samples),
                                            fade_samples)
                        ELSE faded_in(i)
  IN [j \in 1..n |-> faded_out(j - 1)]

\* Mutant of apply_echo: the tail past the end wraps round to the start.
apply_echo_wrapped(wave, sample_rate, delay_sec, decay) ==
  LET n             == Len(wave)
      delay_samples == Trunc(delay_sec[1] * sample_rate, delay_sec[2])
  IN [j \in 1..n |->
        wave[j] + Trunc(decay[1] * wave[((j - 1 - delay_samples) % n) + 1], decay[2])]

apply_echo(wave, sample_rate, delay_sec, decay) ==
  LET n             == Len(wave)
      delay_samples == Trunc(delay_sec[1] * sample_rate, delay_sec[2])
      zeros         == [j \in 1..(n + delay_samples) |-> 0]
      copied        == [j \in 1..(n + delay_samples) |->
                          IF j <= n THEN wave[j] ELSE zeros[j]]
      echo_wave     == [j \in 1..(n + delay_samples) |->
                          IF j > delay_samples
                            THEN copied[j]
                                 + Trunc(decay[1] * wave[j - delay_samples], decay[2])
                            ELSE copied[j]]
  IN [j \in 1..n |-> echo_wave[j]]

\* apply_chorus raises ValueError: np.interp on an empty array.
chorus_raises(wave, voices) == Len(wave) = 0 /\ voices > 0

\* One pass of the "for i in range(voices)" loop at sample i: the delayed
\* read index of voice v, (lfo * sample_rate).astype(int) samples back.
chorus_index(n, sample_rate, depth, rate, v, i) ==
  LET lfo_samples == Trunc(depth[1] * sample_rate
                             * sin_fp(rate[1] * (v + 1) * i, rate[2] * sample_rate),
                           depth[2] * ONE)
  IN Clip(i - lfo_samples, 0, n - 1)

\* output[i] after the passes of voices 0 .. v-1, starting from 0.5 * wave[i].
RECURSIVE chorus_output(_, _, _, _, _, _, _)
chorus_output(wave, sample_rate, depth, rate, voices, v, i) ==
  IF v = 0 THEN Trunc(wave[i + 1], 2)
  ELSE chorus_output(wave, sample_rate, depth, rate, voices, v - 1, i)
       + Trunc(wave[chorus_index(Len(wave), sample_rate, depth, rate, v - 1, i) + 1],
               2 * voices)

apply_chorus(wave, sample_rate, depth, rate, voices) ==
  [j \in 1..Len(wave) |->
      chorus_output(wave, sample_rate, depth, rate, voices, voices, j - 1)]

\* ------------------------------------------------------------------------
\* Program constants and default arguments
\* ------------------------------------------------------------------------

SAMPLE_RATE == 44100
VOLUME == <<1, 10>>
DURATION == <<3, 1>>

waveforms == <<"sine", "square", "triangle">>

\* Defaults of apply_phaser, apply_echo and apply_chorus.
PHASER_DEPTH == <<1, 1000>>
PHASER_RATE == <<1, 2>>
ECHO_DELAY_SEC == <<15, 100>>
ECHO_DECAY == <<25, 100>>
CHORUS_DEPTH == <<2, 1000>>
CHORUS_RATE == <<3, 2>>
CHORUS_VOICES == 3

\* ------------------------------------------------------------------------
\* generate_waveform
\* ------------------------------------------------------------------------

\* periods = int(freq * duration)
wave_periods(freq, duration) ==
  Trunc(freq[1] * duration[1], freq[2] * duration[2])

\* Mutant of wave_samples: the sample count is rounded to nearest.
wave_samples_rounded(freq, duration, sample_rate) ==
  (2 * sample_rate * wave_periods(freq, duration) * freq[2] + freq[1])
    \div (2 * freq[1])

\* int(sample_rate * duration) after duration = periods / freq
wave_samples(freq, duration, sample_rate) ==
  Trunc(sample_rate * wave_periods(freq, duration) * freq[2], freq[1])

\* The oscillator: t = linspace(0, duration, n, endpoint=False), so sample i
\* is at phase 2*pi*freq*t[i] = 2*pi * i*periods / n; the square wave is
\* scaled by 0.4.
oscillator(wave_type, freq, duration, sample_rate) ==
  LET periods == wave_periods(freq, duration)
      n       == wave_samples(freq, duration, sample_rate)
  IN [j \in 1..n |->
        CASE wave_type = "sine"     -> sin_fp((j - 1) * periods, n)
          [] wave_type = "square"   -> Trunc(4 * square_fp((j - 1) * periods, n), 10)
          [] wave_type = "triangle" -> sawtooth_fp((j - 1) * periods, n)]

\* Mutant of effects: the echo is applied before the phaser.
effects_echo_first(wave, sample_rate, phaser, echo, chorus) ==
  LET w1 == IF echo
              THEN apply_echo(wave, sample_rate, ECHO_DELAY_SEC, ECHO_DECAY)
              ELSE wave
      w2 == IF phaser
              THEN apply_phaser(w1, sample_rate, PHASER_DEPTH, PHASER_RATE)
              ELSE w1
      w3 == IF chorus
              THEN apply_chorus(w2, sample_rate, CHORUS_DEPTH, CHORUS_RATE,
                                CHORUS_VOICES)
              ELSE w2
  IN w3

\* The three "if <effect>_on" statements, in the order of the code.
effects(wave, sample_rate, phaser, echo, chorus) ==
  LET w1 == IF phaser
              THEN apply_phaser(wave, sample_rate, PHASER_DEPTH, PHASER_RATE)
              ELSE wave
      w2 == IF echo
              THEN apply_echo(w1, sample_rate, ECHO_DELAY_SEC, ECHO_DECAY)
              ELSE w1
      w3 == IF chorus
              THEN apply_chorus(w2, sample_rate, CHORUS_DEPTH, CHORUS_RATE,
                                CHORUS_VOICES)
              ELSE w2
  IN w3

\* Whether one of the enabled effects raises (the chorus sees the buffer
\* the phaser and the echo left, of the same length as the input).
effects_raise(wave, sample_rate, phaser, echo, chorus) ==
  \/ phaser /\ phaser_raises(wave, sample_rate)
  \/ chorus /\ chorus_raises(wave, CHORUS_VOICES)

\* Mutant of scaled: the volume is left out.
scaled_full_volume(wave, volume) ==
  [j \in 1..Len(wave) |-> Trunc(wave[j] * 32767, ONE)]

\* volume * wave * 32767, the value handed to np.int16 (its integer part).
scaled(wave, volume) ==
  [j \in 1..Len(wave) |-> Trunc(wave[j] * volume[1] * 32767, volume[2] * ONE)]

\* np.int16(x): the low 16 bits, two's complement.
int16(x) == ((x + 32768) % 65536) - 32768

\* The locals of generate_waveform when it returns or raises.  phaser, echo
\* and chorus are the globals phaser_on, echo_on and chorus_on it reads.
render(wave_type, freq, duration, sample_rate, volume, phaser, echo, chorus) ==
  LET known == \E i \in 1..Len(waveforms) : waveforms[i] = wave_type
      raw   == oscillator(wave_type, freq, duration, sample_rate)
      fx    == effects(raw, sample_rate, phaser, echo, chorus)
      pre   == scaled(fx, volume)
  IN IF ~known
       THEN [status |-> "ValueError", periods |-> wave_periods(freq, duration),
             raw |-> <<>>, fx |-> <<>>, pre |-> <<>>, audio |-> <<>>]
     ELSE IF effects_raise(raw, sample_rate, phaser, echo, chorus)
       THEN [status |-> "ValueError", periods |-> wave_periods(freq, duration),
             raw |-> raw, fx |-> <<>>, pre |-> <<>>, audio |-> <<>>]
     ELSE [status |-> "ok", periods |-> wave_periods(freq, duration),
           raw |-> raw, fx |-> fx, pre |-> pre,
           audio |-> [j \in 1..Len(pre) |-> int16(pre[j])]]

\* What generate_waveform returns (the int16 array), for a call that returns.
generate_waveform(wave_type, freq, duration, sample_rate, volume, phaser, echo, chorus) ==
  render(wave_type, freq, duration, sample_rate, volume, phaser, echo, chorus).audio

\* ------------------------------------------------------------------------
\* Notes and the sound bank
\* ------------------------------------------------------------------------

\* The keys of note_map in insertion order (the order its items() iterate).
note_keys ==
  <<"a", "w", "s", "e", "d", "f", "t", "g", "y", "h", "u", "j", "k", "o", "l", "p">>

note_map == [k \in {note_keys[i] : i \in 1..Len(note_keys)} |->
               (CHOOSE i \in 1..Len(note_keys) : note_keys[i] = k) - 1]

\* base_freq * 2 ** (semitone_offset / 12), semitone_offset >= 0, as a
\* rational in 1/1000 Hz: 2 ** (k / 12) for k < 12 is tabulated to 3 decimals.
semitone_freq(base_freq, semitone_offset) ==
  LET pow == <<1000, 1059, 1122, 1189, 1260, 1335, 1414, 1498, 1587, 1682, 1782, 1888>>
  IN <<base_freq * pow[(semitone_offset % 12) + 1] * (2 ^ (semitone_offset \div 12)),
       1000>>

\* The bank is rendered at BankRate samples per second for 1 / BankDurDen
\* seconds, in place of SAMPLE_RATE and DURATION (132300 samples a note).
BankRate == 100
BankDurDen == 4

\* regenerate_sounds as a function of the globals it reads: one buffer for
\* every key of note_map, each rendered with the same waveform and effects.
render_bank(wave_idx, phaser, echo, chorus) ==
  [key \in DOMAIN note_map |->
     generate_waveform(waveforms[wave_idx + 1], semitone_freq(440, note_map[key]),
                       <<1, BankDurDen>>, BankRate, VOLUME, phaser, echo, chorus)]

\* render_bank tabulated over the 24 parameter sets (rendering is pure).
bank_table ==
  [i \in 0..(Len(waveforms) - 1) |->
     [p \in BOOLEAN |-> [e \in BOOLEAN |-> [c \in BOOLEAN |-> render_bank(i, p, e, c)]]]]

regenerate_sounds(wave_idx, phaser, echo, chorus) ==
  bank_table[wave_idx][phaser][echo][chorus]

\* ------------------------------------------------------------------------
\* State
\* ------------------------------------------------------------------------

VARIABLES
  running,               \* the main loop's flag
  exited,                \* the loop has ended and pygame.quit() has run
  current_waveform_idx,
  phaser_on, echo_on, chorus_on,
  sounds,                \* key -> Sound (its sample buffer)
  playing_channels,      \* key -> Channel
  effect_status,         \* what render_effect_status last rendered
  mixer,                 \* the Channels that are looping a Sound
  rb_pc, rb_i, new_sounds,   \* regenerate_sounds run step by step (RebuildSpec)
  call, result,          \* a call of a pure function and its outcome (RenderSpec, EchoSpec)
  ev,                    \* history: the event handled last
  held,                  \* history: note keys pressed and not yet released
  rebuilt,               \* history: the last event called regenerate_sounds
  started,               \* history: the buffer the last event started playing
  last_param_key,        \* history: the last key among z x c 1 2 3 pressed
  bank_before,           \* history: the bank before that key was handled
  repeated               \* history: that key was also the one pressed before it

params == <<current_waveform_idx, phaser_on, echo_on, chorus_on>>
loopState == <<running, exited, sounds, playing_channels, effect_status, mixer>>
rebuildState == <<rb_pc, rb_i, new_sounds>>
callState == <<call, result>>
history == <<ev, held, rebuilt, started, last_param_key, bank_before, repeated>>
vars == <<params, loopState, rebuildState, callState, history>>

\* Note keys the modelled user plays: the first NumPlayKeys keys of note_map.
NumPlayKeys == 2
PlayKeys == {note_keys[i] : i \in 1..NumPlayKeys}

ParamKeys == {"z", "x", "c", "1", "2", "3"}

\* The keys of the modelled keyboard: "q" is bound to nothing.
Keys == ParamKeys \cup PlayKeys \cup {"q"}

NoEvent == [type |-> "NONE", key |-> ""]

\* render_effect_status: the four status lines.
render_effect_status(wave_idx, phaser, echo, chorus) ==
  <<waveforms[wave_idx + 1], phaser, echo, chorus>>

\* Sound.play(-1): the Channel that loops the Sound of `key`.
Channel(key) == [loops |-> key]

InitLoop ==
  /\ running = TRUE
  /\ exited = FALSE
  /\ current_waveform_idx = 0
  /\ phaser_on = FALSE
  /\ echo_on = FALSE
  /\ chorus_on = FALSE
  /\ sounds = regenerate_sounds(0, FALSE, FALSE, FALSE)
  /\ playing_channels = <<>>
  /\ effect_status = render_effect_status(0, FALSE, FALSE, FALSE)
  /\ mixer = {}
  /\ rb_pc = "idle"
  /\ rb_i = 0
  /\ new_sounds = <<>>
  /\ ev = NoEvent
  /\ held = {}
  /\ rebuilt = TRUE
  /\ started = <<>>
  /\ last_param_key = ""
  /\ bank_before = <<>>
  /\ repeated = FALSE

NoCall == [fn |-> "none"]

Init ==
  /\ InitLoop
  /\ call = NoCall
  /\ result = NoCall

\* ------------------------------------------------------------------------
\* The event loop: one action per branch of the "for event in ..." body
\* ------------------------------------------------------------------------

KeyDown(key) == [type |-> "KEYDOWN", key |-> key]
KeyUp(key) == [type |-> "KEYUP", key |-> key]

\* An event can be handled: the loop has not ended (the events left in the
\* batch after a QUIT are still handled) and no rebuild is under way.
Handling == ~exited /\ rb_pc = "idle"

\* The assignment each parameter key's branch starts with.
assign_param(key) ==
  CASE key = "z" -> /\ phaser_on' = ~phaser_on
                    /\ UNCHANGED <<current_waveform_idx, echo_on, chorus_on>>
    [] key = "x" -> /\ echo_on' = ~echo_on
                    /\ UNCHANGED <<current_waveform_idx, phaser_on, chorus_on>>
    [] key = "c" -> /\ chorus_on' = ~chorus_on
                    /\ UNCHANGED <<current_waveform_idx, phaser_on, echo_on>>
    [] key = "1" -> /\ current_waveform_idx' = 0
                    /\ UNCHANGED <<phaser_on, echo_on, chorus_on>>
    [] key = "2" -> /\ current_waveform_idx' = 1
                    /\ UNCHANGED <<phaser_on, echo_on, chorus_on>>
    [] key = "3" -> /\ current_waveform_idx' = 2
                    /\ UNCHANGED <<phaser_on, echo_on, chorus_on>>

\* History of a parameter key's branch.
ParamHistory(key) ==
  /\ ev' = KeyDown(key)
  /\ last_param_key' = key
  /\ bank_before' = sounds
  /\ repeated' = (last_param_key = key)
  /\ started' = <<>>
  /\ UNCHANGED held

\* History of any other branch that starts nothing.
PlainHistory(event) ==
  /\ ev' = event
  /\ rebuilt' = FALSE
  /\ started' = <<>>
  /\ UNCHANGED <<last_param_key, bank_before, repeated>>

\* sounds = regenerate_sounds(), run to its end within the handler.
AssignRegenerated ==
  /\ sounds' = regenerate_sounds(current_waveform_idx', phaser_on', echo_on', chorus_on')
  /\ rebuilt' = TRUE

\* A KEYDOWN of z, x, c, 1, 2 or 3: set the parameter, re-render the status
\* lines, rebuild the bank.
KeyDownParam(key) ==
  /\ Handling
  /\ assign_param(key)
  /\ effect_status' = render_effect_status(current_waveform_idx', phaser_on',
                                           echo_on', chorus_on')
  /\ AssignRegenerated
  /\ ParamHistory(key)
  /\ UNCHANGED <<running, exited, playing_channels, mixer, rebuildState, callState>>

\* Mutant of KeyDownX: the branch switches the echo on instead of toggling it.
KeyDownX_sets_on ==
  /\ Handling
  /\ echo_on' = TRUE
  /\ UNCHANGED <<current_waveform_idx, phaser_on, chorus_on>>
  /\ effect_status' = render_effect_status(current_waveform_idx', phaser_on',
                                           echo_on', chorus_on')
  /\ AssignRegenerated
  /\ ParamHistory("x")
  /\ UNCHANGED <<running, exited, playing_channels, mixer, rebuildState, callState>>

\* Mutant of KeyDownC: the branch toggles the chorus and redraws the status
\* lines but does not rebuild the bank.
KeyDownC_stale ==
  /\ Handling
  /\ assign_param("c")
  /\ effect_status' = render_effect_status(current_waveform_idx', phaser_on',
                                           echo_on', chorus_on')
  /\ rebuilt' = FALSE
  /\ ParamHistory("c")
  /\ UNCHANGED <<sounds, running, exited, playing_channels, mixer, rebuildState,
                 callState>>

KeyDownZ == KeyDownParam("z")
KeyDownX == KeyDownParam("x")
KeyDownC == KeyDownParam("c")
KeyDown1 == KeyDownParam("1")
KeyDown2 == KeyDownParam("2")
KeyDown3 == KeyDownParam("3")

\* Mutant of KeyDownNote: a note press rebuilds the bank before it plays.
KeyDownNote_rebuilds(key) ==
  /\ Handling
  /\ key \notin ParamKeys
  /\ key \in DOMAIN note_map /\ key \notin DOMAIN playing_channels
  /\ playing_channels' = [k \in DOMAIN playing_channels \cup {key} |->
                            IF k = key THEN Channel(key) ELSE playing_channels[k]]
  /\ mixer' = mixer \cup {Channel(key)}
  /\ UNCHANGED <<params, running, exited, effect_status, rebuildState, callState>>
  /\ AssignRegenerated
  /\ ev' = KeyDown(key)
  /\ held' = held \cup {key}
  /\ started' = sounds'[key]
  /\ UNCHANGED <<last_param_key, bank_before, repeated>>

\* KEYDOWN of a note key that is not playing: loop its Sound, keep the Channel.
KeyDownNote(key) ==
  /\ Handling
  /\ key \notin ParamKeys
  /\ key \in DOMAIN note_map /\ key \notin DOMAIN playing_channels
  /\ playing_channels' = [k \in DOMAIN playing_channels \cup {key} |->
                            IF k = key THEN Channel(key) ELSE playing_channels[k]]
  /\ mixer' = mixer \cup {Channel(key)}
  /\ ev' = KeyDown(key)
  /\ held' = held \cup {key}
  /\ rebuilt' = FALSE
  /\ started' = sounds[key]
  /\ UNCHANGED <<last_param_key, bank_before, repeated>>
  /\ UNCHANGED <<params, running, exited, sounds, effect_status, rebuildState, callState>>

\* KEYDOWN of any other key, or of a note key that is already playing: no
\* branch applies.
KeyDownIgnored(key) ==
  /\ Handling
  /\ key \notin ParamKeys
  /\ ~(key \in DOMAIN note_map /\ key \notin DOMAIN playing_channels)
  /\ PlainHistory(KeyDown(key))
  /\ held' = IF key \in DOMAIN note_map THEN held \cup {key} ELSE held
  /\ UNCHANGED <<params, loopState, rebuildState, callState>>

\* Mutant of KeyUpPlaying: the Channel is stopped but its entry is kept.
KeyUpPlaying_keeps_entry(key) ==
  /\ Handling
  /\ key \in DOMAIN playing_channels
  /\ mixer' = mixer \ {playing_channels[key]}
  /\ PlainHistory(KeyUp(key))
  /\ held' = held \ {key}
  /\ UNCHANGED <<params, running, exited, sounds, playing_channels, effect_status,
                 rebuildState, callState>>

\* KEYUP of a key that is playing: stop its Channel, delete the entry.
KeyUpPlaying(key) ==
  /\ Handling
  /\ key \in DOMAIN playing_channels
  /\ mixer' = mixer \ {playing_channels[key]}
  /\ playing_channels' = [k \in DOMAIN playing_channels \ {key} |-> playing_channels[k]]
  /\ PlainHistory(KeyUp(key))
  /\ held' = held \ {key}
  /\ UNCHANGED <<params, running, exited, sounds, effect_status, rebuildState, callState>>

\* KEYUP of any other key.
KeyUpIgnored(key) ==
  /\ Handling
  /\ key \notin DOMAIN playing_channels
  /\ PlainHistory(KeyUp(key))
  /\ held' = held \ {key}
  /\ UNCHANGED <<params, loopState, rebuildState, callState>>

\* pygame.QUIT
Quit ==
  /\ Handling
  /\ running' = FALSE
  /\ PlainHistory([type |-> "QUIT", key |-> ""])
  /\ UNCHANGED held
  /\ UNCHANGED <<params, exited, sounds, playing_channels, effect_status, mixer,
                 rebuildState, callState>>

\* An event of any other type (mouse, window, ...).
OtherEvent ==
  /\ Handling
  /\ PlainHistory([type |-> "OTHER", key |-> ""])
  /\ UNCHANGED held
  /\ UNCHANGED <<params, loopState, rebuildState, callState>>

\* The batch is empty and running is False: the loop ends and pygame.quit()
\* shuts the mixer down.
ExitLoop ==
  /\ Handling
  /\ ~running
  /\ exited' = TRUE
  /\ mixer' = {}
  /\ PlainHistory(NoEvent)
  /\ UNCHANGED held
  /\ UNCHANGED <<params, running, sounds, playing_channels, effect_status,
                 rebuildState, callState>>

Next ==
  \/ KeyDownZ
  \/ KeyDownX
  \/ KeyDownC
  \/ KeyDown1
  \/ KeyDown2
  \/ KeyDown3
  \/ \E key \in Keys : KeyDownNote(key)
  \/ \E key \in Keys : KeyDownIgnored(key)
  \/ \E key \in Keys : KeyUpPlaying(key)
  \/ \E key \in Keys : KeyUpIgnored(key)
  \/ Quit
  \/ OtherEvent
  \/ ExitLoop

Spec == Init /\ [][Next]_vars

\* ------------------------------------------------------------------------
\* regenerate_sounds step by step: a parameter key's branch up to the call,
\* the passes of the loop over note_map, and the assignment of the result
\* ------------------------------------------------------------------------

\* Note keys played while rebuilds are followed step by step.
RebuildPlayKeys == {note_keys[1]}

\* The branch of z, x, c, 1, 2 or 3 up to new_sounds = {} in regenerate_sounds.
StartRebuild(key) ==
  /\ Handling
  /\ assign_param(key)
  /\ effect_status' = render_effect_status(current_waveform_idx', phaser_on',
                                           echo_on', chorus_on')
  /\ rb_pc' = "render"
  /\ rb_i' = 1
  /\ new_sounds' = <<>>
  /\ rebuilt' = TRUE
  /\ ParamHistory(key)
  /\ UNCHANGED <<running, exited, sounds, playing_channels, mixer, callState>>

\* Mutant of RenderNote: the pass patches the note into sounds itself.
RenderNote_in_place ==
  /\ rb_pc = "render"
  /\ rb_i <= Len(note_keys)
  /\ sounds' = [sounds EXCEPT ![note_keys[rb_i]] =
                  regenerate_sounds(current_waveform_idx, phaser_on,
                                    echo_on, chorus_on)[note_keys[rb_i]]]
  /\ new_sounds' = sounds'
  /\ rb_i' = rb_i + 1
  /\ UNCHANGED <<rb_pc, params, running, exited, playing_channels, effect_status,
                 mixer, callState, history>>

\* One pass of the loop: render the next note into new_sounds.
RenderNote ==
  /\ rb_pc = "render"
  /\ rb_i <= Len(note_keys)
  /\ new_sounds' = [k \in DOMAIN new_sounds \cup {note_keys[rb_i]} |->
                      IF k = note_keys[rb_i]
                        THEN regenerate_sounds(current_waveform_idx, phaser_on,
                                               echo_on, chorus_on)[k]
                        ELSE new_sounds[k]]
  /\ rb_i' = rb_i + 1
  /\ UNCHANGED <<rb_pc, params, loopState, callState, history>>

\* A pass raises (generate_waveform or make_sound: an allocation failure, a
\* mixer error): the exception leaves regenerate_sounds and the main loop,
\* and the program ends without assigning sounds.
RenderRaises ==
  /\ rb_pc = "render"
  /\ rb_i <= Len(note_keys)
  /\ rb_pc' = "crashed"
  /\ UNCHANGED <<rb_i, new_sounds, params, loopState, callState, history>>

\* return new_sounds, and the handler's sounds = ...
ReturnBank ==
  /\ rb_pc = "render"
  /\ rb_i > Len(note_keys)
  /\ sounds' = new_sounds
  /\ rb_pc' = "idle"
  /\ rb_i' = 0
  /\ new_sounds' = <<>>
  /\ UNCHANGED <<params, running, exited, playing_channels, effect_status, mixer,
                 callState, history>>

NextRebuild ==
  \/ \E key \in ParamKeys : StartRebuild(key)
  \/ RenderNote
  \/ RenderRaises
  \/ ReturnBank
  \/ \E key \in RebuildPlayKeys : KeyDownNote(key)
  \/ \E key \in RebuildPlayKeys : KeyUpPlaying(key)

RebuildSpec == Init /\ [][NextRebuild]_vars

\* ------------------------------------------------------------------------
\* Calls of generate_waveform and apply_echo on their own
\* ------------------------------------------------------------------------

RenderTypes == {"sine", "square", "triangle", "noise"}
RenderFreqs == {<<1, 2>>, <<7, 2>>, <<44, 1>>, <<300, 1>>}
RenderDurations == {<<1, 200>>, <<1, 5>>, <<1, 1>>}
RenderRates == {50, 100, 1000}

\* The event loop's variables while a pure function is exercised.
LoopAtRest ==
  /\ running = TRUE
  /\ exited = FALSE
  /\ current_waveform_idx = 0
  /\ sounds = <<>>
  /\ playing_channels = <<>>
  /\ effect_status = <<>>
  /\ mixer = {}
  /\ rb_pc = "idle"
  /\ rb_i = 0
  /\ new_sounds = <<>>
  /\ ev = NoEvent
  /\ held = {}
  /\ rebuilt = FALSE
  /\ started = <<>>
  /\ last_param_key = ""
  /\ bank_before = <<>>
  /\ repeated = FALSE

InitRender ==
  /\ LoopAtRest
  /\ phaser_on \in BOOLEAN
  /\ echo_on \in BOOLEAN
  /\ chorus_on \in BOOLEAN
  /\ call \in [fn : {"generate_waveform"}, wave_type : RenderTypes,
               freq : RenderFreqs, duration : RenderDurations,
               sample_rate : RenderRates, volume : {VOLUME}]
  /\ result = NoCall

\* generate_waveform(wave_type, freq, duration, sample_rate, volume) runs.
CallGenerateWaveform ==
  /\ call.fn = "generate_waveform"
  /\ result = NoCall
  /\ result' = render(call.wave_type, call.freq, call.duration, call.sample_rate,
                      call.volume, phaser_on, echo_on, chorus_on)
  /\ UNCHANGED <<call, params, loopState, rebuildState, history>>

NextRender == CallGenerateWaveform

RenderSpec == InitRender /\ [][NextRender]_vars

\* Longest input of apply_echo tried.
MaxEchoLen == 4

EchoSamples == {-ONE, 0, (6 * ONE) \div 10}

InitEcho ==
  /\ LoopAtRest
  /\ phaser_on = FALSE
  /\ echo_on = TRUE
  /\ chorus_on = FALSE
  /\ \E n \in 0..MaxEchoLen :
       call \in [fn : {"apply_echo"}, wave : [1..n -> EchoSamples],
                 sample_rate : {10, 20},
                 delay_sec : {<<1, 10>>, ECHO_DELAY_SEC, <<3, 10>>},
                 decay : {ECHO_DECAY, <<1, 2>>}]
  /\ result = NoCall

\* apply_echo(wave, sample_rate, delay_sec, decay) runs.
CallApplyEcho ==
  /\ call.fn = "apply_echo"
  /\ result = NoCall
  /\ result' = [status |-> "ok",
                out |-> apply_echo(call.wave, call.sample_rate, call.delay_sec,
                                   call.decay)]
  /\ UNCHANGED <<call, params, loopState, rebuildState, history>>

NextEcho == CallApplyEcho

EchoSpec == InitEcho /\ [][NextEcho]_vars

\* ------------------------------------------------------------------------
\* Properties of the event loop (Spec)
\* ------------------------------------------------------------------------

\* The buffer generate_waveform returns for `key` under the current globals
\* (bank_table holds render_bank, which calls generate_waveform for each key).
CurrentBuffer(key) ==
  bank_table[current_waveform_idx][phaser_on][echo_on][chorus_on][key]

\* C1: after startup and after every handled event the bank holds a buffer
\* for each of the 16 keys of note_map, and every buffer is the one rendered
\* from the current waveform index and the current three effect flags.
C1_BankReflectsCurrentParams ==
  /\ DOMAIN sounds = DOMAIN note_map
  /\ Cardinality(DOMAIN sounds) = 16
  /\ \A key \in DOMAIN note_map : sounds[key] = CurrentBuffer(key)

\* C1 witness: several selections and toggles later, with a note sounding.
C1_Witness ==
  /\ current_waveform_idx = 2
  /\ phaser_on /\ echo_on /\ ~chorus_on
  /\ last_param_key = "c"
  /\ DOMAIN playing_channels # {}
  /\ ev.type = "KEYUP"

IsParamKeyDown(event) == event.type = "KEYDOWN" /\ event.key \in ParamKeys

C3_Step ==
  /\ IsParamKeyDown(ev') =>
       /\ rebuilt'
       /\ sounds' = bank_table[current_waveform_idx'][phaser_on'][echo_on'][chorus_on']
  /\ ~IsParamKeyDown(ev') => ~rebuilt'
  /\ (ev'.type = "KEYUP" \/ (ev'.type = "KEYDOWN" /\ ev'.key \in DOMAIN note_map)) =>
       UNCHANGED <<sounds, current_waveform_idx, phaser_on, echo_on, chorus_on>>

\* C3: every KEYDOWN of 1, 2, 3, z, x or c rebuilds the bank and no other
\* event does; a note key press and any key release leave the bank, the
\* waveform index and the three effect flags as they were.
C3_RebuildOnlyOnParamKeys == [][C3_Step]_vars

\* C3 witness: a note is pressed after a rebuild changed the parameters.
C3_Witness ==
  /\ ev.type = "KEYDOWN" /\ ev.key \in DOMAIN note_map
  /\ started # <<>>
  /\ ~rebuilt
  /\ phaser_on /\ current_waveform_idx = 1

C5_Step ==
  /\ (ev'.type = "KEYDOWN" /\ ev'.key \in {"z", "x", "c"} /\ last_param_key = ev'.key) =>
       sounds' = bank_before
  /\ \A i \in 0..2 :
       (ev' = KeyDown(<<"1", "2", "3">>[i + 1]) /\ current_waveform_idx = i) =>
         sounds' = sounds

\* C5: the second of two presses of the same effect key, with nothing but
\* note key presses and releases (and no other parameter key) in between,
\* leaves a bank equal buffer for buffer to the bank before the first press;
\* selecting the waveform that is already selected leaves an equal bank.
C5_ToggleTwiceRestoresBank == [][C5_Step]_vars

\* C5 witness: the echo was switched on and off again around a note press.
C5_Witness ==
  /\ ev = KeyDown("x")
  /\ last_param_key = "x" /\ repeated
  /\ ~echo_on
  /\ held # {}
  /\ sounds # bank_before

C10_Inv ==
  /\ DOMAIN playing_channels = held
  /\ \A k \in DOMAIN playing_channels : playing_channels[k] = Channel(k)
  /\ ~exited => mixer = {playing_channels[k] : k \in DOMAIN playing_channels}

C10_Step ==
  \A key \in Keys :
    /\ (ev' = KeyDown(key) /\ key \in DOMAIN note_map
          /\ key \notin DOMAIN playing_channels) =>
         /\ started' = sounds[key]
         /\ DOMAIN playing_channels' = DOMAIN playing_channels \cup {key}
         /\ playing_channels'[key] \in mixer' \ mixer
         /\ \A k \in DOMAIN playing_channels : playing_channels'[k] = playing_channels[k]
    /\ (ev' = KeyDown(key) /\ key \in DOMAIN playing_channels) =>
         /\ started' = <<>>
         /\ UNCHANGED <<playing_channels, mixer>>
    /\ (ev' = KeyUp(key) /\ key \in DOMAIN playing_channels) =>
         /\ mixer' = mixer \ {playing_channels[key]}
         /\ DOMAIN playing_channels' = DOMAIN playing_channels \ {key}
         /\ \A k \in DOMAIN playing_channels' : playing_channels'[k] = playing_channels[k]
    /\ (ev' = KeyDown(key) /\ key \in ParamKeys) =>
         UNCHANGED <<playing_channels, mixer>>

IsWholeBank(bank) ==
  \E i \in 0..(Len(waveforms) - 1) : \E p \in BOOLEAN : \E e \in BOOLEAN :
    \E c \in BOOLEAN : bank = bank_table[i][p][e][c]

\* C2: at every point of a rebuild sounds is a whole bank of one parameter
\* set: the old bank while the new one is built in new_sounds, the new one
\* once it is assigned; and after a pass has raised, sounds still is the
\* whole old bank.
C2_BankReplacedAsOneUnit ==
  /\ DOMAIN sounds = DOMAIN note_map
  /\ IsWholeBank(sounds)
  /\ rb_pc \in {"render", "crashed"} => sounds = bank_before
  /\ rb_pc = "idle" =>
       sounds = bank_table[current_waveform_idx][phaser_on][echo_on][chorus_on]

\* C2 witness: a pass raised with half of the new bank built.
C2_Witness ==
  /\ rb_pc = "crashed"
  /\ Cardinality(DOMAIN new_sounds) = 8
  /\ new_sounds[note_keys[1]] # sounds[note_keys[1]]
  /\ sounds = bank_before

\* ------------------------------------------------------------------------
\* Properties of generate_waveform (RenderSpec)
\* ------------------------------------------------------------------------

Returned == result # NoCall /\ result.status = "ok"

PhaserOrNot(wave) ==
  IF phaser_on THEN apply_phaser(wave, call.sample_rate, PHASER_DEPTH, PHASER_RATE)
               ELSE wave

EchoOrNot(wave) ==
  IF echo_on THEN apply_echo(wave, call.sample_rate, ECHO_DELAY_SEC, ECHO_DECAY)
             ELSE wave

ChorusOrNot(wave) ==
  IF chorus_on THEN apply_chorus(wave, call.sample_rate, CHORUS_DEPTH, CHORUS_RATE,
                                 CHORUS_VOICES)
               ELSE wave

\* C4: the buffer that is scaled and quantised is chorus(echo(phaser(raw)))
\* with each disabled effect replaced by the identity; with all three
\* disabled it is the oscillator output itself.
C4_EffectsInFixedOrder ==
  Returned =>
    /\ result.fx = ChorusOrNot(EchoOrNot(PhaserOrNot(result.raw)))
    /\ (~phaser_on /\ ~echo_on /\ ~chorus_on) => result.fx = result.raw
    /\ result.pre = scaled(result.fx, call.volume)

\* C4 witness: all three effects on, on a buffer longer than the echo delay.
C4_Witness ==
  /\ Returned
  /\ phaser_on /\ echo_on /\ chorus_on
  /\ Len(result.fx) > (ECHO_DELAY_SEC[1] * call.sample_rate) \div ECHO_DELAY_SEC[2]
  /\ result.fx # result.raw

\* sample_rate * periods / freq as a fraction: numerator and denominator.
ExactSamplesNum == call.sample_rate * result.periods * call.freq[2]
ExactSamplesDen == call.freq[1]

\* C6 as stated: the length is sample_rate * periods / freq rounded to the
\* nearest integer.
C6_LengthIsRounded ==
  (Returned /\ result.periods >= 1) =>
    Len(result.audio) = (2 * ExactSamplesNum + ExactSamplesDen) \div (2 * ExactSamplesDen)

\* C6 amended: the length is sample_rate * periods / freq truncated to an
\* integer, whatever the waveform and the enabled effects; for 440 Hz, 3.0 s
\* and 44100 samples per second it is 132300.
C6_LengthIsTruncated ==
  /\ (Returned /\ result.periods >= 1) =>
       /\ Len(result.audio) * ExactSamplesDen <= ExactSamplesNum
       /\ (Len(result.audio) + 1) * ExactSamplesDen > ExactSamplesNum
       /\ Len(result.audio) = Len(result.raw)
  /\ wave_periods(<<440, 1>>, DURATION) = 1320
  /\ wave_samples(<<440, 1>>, DURATION, SAMPLE_RATE) = 132300

\* C6 witness: a returned buffer whose exact length has a fractional part of
\* a half or more, with the echo and the chorus on.
C6_Witness ==
  /\ Returned /\ result.periods >= 1
  /\ 2 * (ExactSamplesNum % ExactSamplesDen) > ExactSamplesDen
  /\ echo_on /\ chorus_on
  /\ Len(result.audio) > 0

\* C8 as stated: a call whose frequency and duration give zero whole periods
\* is rejected with an error, whatever the effects; it never returns a buffer.
C8_ZeroPeriodsRejected ==
  (result # NoCall /\ result.periods = 0 /\ call.wave_type # "noise") =>
    result.status # "ok"

\* C9: with the default volume and effect parameters every value handed to
\* np.int16 lies in -32768 .. 32767, so the conversion changes no value.
C9_NoInt16Overflow ==
  Returned =>
    /\ \A j \in 1..Len(result.pre) : result.pre[j] >= -32768 /\ result.pre[j] <= 32767
    /\ result.audio = result.pre

\* C9 witness: echo and chorus on a sine push a sample above 1.0 before the
\* volume is applied.
C9_Witness ==
  /\ Returned
  /\ call.wave_type = "sine"
  /\ echo_on /\ chorus_on
  /\ \E j \in 1..Len(result.fx) : result.fx[j] > ONE

\* ------------------------------------------------------------------------
\* Properties of apply_echo (EchoSpec)
\* ------------------------------------------------------------------------

EchoDelaySamples == (call.delay_sec[1] * call.sample_rate) \div call.delay_sec[2]

\* C7: for an input of N samples and a delay of D samples, 0 < D < N, the
\* output has N samples, the first D equal the input and every later one is
\* in[i] + decay * in[i - D]; nothing of the tail comes back at the start.
C7_EchoKeepsLengthAndDropsTail ==
  (result # NoCall /\ 0 < EchoDelaySamples /\ EchoDelaySamples < Len(call.wave)) =>
    /\ Len(result.out) = Len(call.wave)
    /\ \A j \in 1..Len(call.wave) :
         result.out[j] =
           IF j <= EchoDelaySamples
             THEN call.wave[j]
             ELSE call.wave[j]
                  + Trunc(call.decay[1] * call.wave[j - EchoDelaySamples], call.decay[2])

\* C7 witness: a delay inside the buffer, a non-zero tail that is dropped and
\* an echo that is heard.
C7_Witness ==
  /\ result # NoCall
  /\ 0 < EchoDelaySamples /\ EchoDelaySamples < Len(call.wave)
  /\ call.wave[Len(call.wave)] # 0
  /\ call.wave[1] # 0
  /\ result.out[1] = call.wave[1]
  /\ result.out[EchoDelaySamples + 1] # call.wave[EchoDelaySamples + 1]

====
